---------------------------- MODULE Spec2Model ----------------------------
(***************************************************************************)
(* Model of the /get-stores price aggregation of src/app.py: the three     *)
(* source adapters (fetch_price_wilcon, fetch_price_ace,                   *)
(* fetch_price_shopee), the request handler get_stores with its adapter    *)
(* loop, AI fallback, bracket extraction, JSON parsing and merge loop, and *)
(* the top-level exception handler.                                        *)
(*                                                                         *)
(* Representation.  Strings are sequences of one-character strings.        *)
(* Prices are integers (whole pesos): the texts and raw prices drawn below *)
(* are chosen so that float() and the division by 100000 are exact.        *)
(* "P" stands for the peso sign that the scrapers strip.  The AI response  *)
(* is a sequence of lexical tokens (brackets, prose, malformed fragments,  *)
(* JSON values); commas and whitespace between JSON values are elided.     *)
(* Quote fields that no control flow depends on (store, address) are left  *)
(* out of the quote records.                                               *)
(***************************************************************************)
EXTENDS Integers, Sequences, FiniteSets, TLC

VARIABLES pc, data, item, quantity, results, idx, response, ai_str, ai_stores,
          pos, status, stores, calls

vars == <<pc, data, item, quantity, results, idx, response, ai_str, ai_stores,
          pos, status, stores, calls>>

\* ------------------------------------------------------------------ bounds
\* Longest JSON array drawn for the AI response.
MaxAiEntries == 4

\* --------------------------------------------------------- program constants
\* The cap of the result list: len(results) >= 3, len(results) < 3, results[:3].
MaxStores == 3
\* Shopee's price divisor.
ShopeeDivisor == 100000

\* ------------------------------------------------------------ Python values
\* Python's None, as a one-character-string sequence no request text equals.
None == <<"None">>

Digits == {"0", "1", "2", "3", "4", "5", "6", "7", "8", "9"}

DigitVal(c) ==
    CASE c = "0" -> 0 [] c = "1" -> 1 [] c = "2" -> 2 [] c = "3" -> 3
      [] c = "4" -> 4 [] c = "5" -> 5 [] c = "6" -> 6 [] c = "7" -> 7
      [] c = "8" -> 8 [] c = "9" -> 9

\* The value of a non-empty sequence of digits.
RECURSIVE DigitsVal(_)
DigitsVal(s) ==
    IF Len(s) = 0 THEN 0
    ELSE 10 * DigitsVal(SubSeq(s, 1, Len(s) - 1)) + DigitVal(s[Len(s)])

AllDigits(s) == Len(s) > 0 /\ \A k \in 1..Len(s) : s[k] \in Digits

\* str.strip(): leading and trailing whitespace removed.
RECURSIVE LStrip(_)
LStrip(s) == IF Len(s) > 0 /\ s[1] = " " THEN LStrip(Tail(s)) ELSE s

RECURSIVE RStrip(_)
RStrip(s) ==
    IF Len(s) > 0 /\ s[Len(s)] = " " THEN RStrip(SubSeq(s, 1, Len(s) - 1)) ELSE s

Strip(s) == RStrip(LStrip(s))

\* str.replace(c, ""): every occurrence of the character c removed.
Remove(s, c) == SelectSeq(s, LAMBDA x : x # c)

\* The first whitespace-separated token of s; <<>> when split() is empty.
RECURSIVE UpToSpace(_)
UpToSpace(s) ==
    IF Len(s) = 0 \/ s[1] = " " THEN <<>> ELSE <<s[1]>> \o UpToSpace(Tail(s))

FirstToken(s) == UpToSpace(LStrip(s))

\* The signed decimal integer literal that int() and float() both accept
\* (surrounding whitespace allowed).  ok = FALSE stands for ValueError.
ParseNumber(s) ==
    LET t    == Strip(s)
        neg  == Len(t) > 0 /\ t[1] = "-"
        sgn  == Len(t) > 0 /\ t[1] \in {"-", "+"}
        body == IF sgn THEN Tail(t) ELSE t
    IN  IF AllDigits(body)
        THEN [ok |-> TRUE, val |-> IF neg THEN 0 - DigitsVal(body) ELSE DigitsVal(body)]
        ELSE [ok |-> FALSE, val |-> 0]


\* ----------------------------------------------------------- collaborators
\* What the HTTP GET of a storefront search page can produce: a transport
\* failure or non-2xx status ("error"), a page without a .product-card
\* ("nocard"), a card without a .price element ("noprice"), or a card whose
\* .price element holds `text` ("page").
PriceTexts ==
    { <<"P", "5">>,                      \* P5
      <<" ", "P", "1", ",", "0", " ">>,  \* " P1,0 " (thousands separator)
      <<"P", "0">>,                      \* P0
      <<"-", "3">>,                      \* -3
      <<"P", "5", " ", "x">>,            \* "P5 x": only the first token counts
      <<"x">>,                           \* not a number
      <<"P">>,                           \* nothing left after stripping
      <<>> }

Pages ==
    [kind : {"error", "nocard", "noprice"}, text : {<<>>}, raw : {0}]
      \cup [kind : {"page"}, text : PriceTexts, raw : {0}]

\* What the Shopee search API can produce: a failure ("error"), no items
\* ("noitems"), a first item without a price field ("noprice"), or a first
\* item whose integer price is `raw` ("items").
ShopeeRaws == {3 * ShopeeDivisor, 0, 0 - ShopeeDivisor}

ShopeeResponses ==
    [kind : {"error", "noitems", "noprice"}, text : {<<>>}, raw : {0}]
      \cup [kind : {"items"}, text : {<<>>}, raw : ShopeeRaws]

\* An adapter's return value: None, or the dict it builds.
NoQuote == [source |-> "none", unit_price |-> 0, confidence |-> "none"]

AdapterQuote(src, price) ==
    [source |-> src, unit_price |-> price, confidence |-> "high"]

\* float(price_text.replace(peso, "").replace(",", "").split()[0]) of the
\* stripped text of the .price element; ok = FALSE is the IndexError of an
\* empty split() or the ValueError of float().
ScrapedPrice(text) ==
    LET tok == FirstToken(Remove(Remove(Strip(text), "P"), ","))
    IN  IF Len(tok) = 0 THEN [ok |-> FALSE, val |-> 0] ELSE ParseNumber(tok)

fetch_price_ace(page) ==
    IF page.kind # "page" THEN NoQuote
    ELSE LET price == ScrapedPrice(page.text)
         IN  IF ~price.ok THEN NoQuote ELSE AdapterQuote("ACE", price.val)

fetch_price_wilcon(page) ==
    IF page.kind # "page" THEN NoQuote
    ELSE LET price == ScrapedPrice(page.text)
         IN  IF ~price.ok THEN NoQuote ELSE AdapterQuote("Wilcon", price.val)

fetch_price_shopee(resp) ==
    IF resp.kind \in {"error", "noitems"} THEN NoQuote
    ELSE LET raw   == IF resp.kind = "noprice" THEN 0 ELSE resp.raw
             price == raw \div ShopeeDivisor
         IN  IF price <= 0 THEN NoQuote ELSE AdapterQuote("Shopee", price)

\* Mutant of FetchFuncs: ACE is asked before Wilcon.
FetchFuncsSwapped == <<"ACE", "Wilcon", "Shopee">>

\* The adapter list of the loop, in invocation order.
FetchFuncs == <<"Wilcon", "ACE", "Shopee">>

\* The outcomes the k-th adapter's network call can have.
Outcomes(fn) == IF fn = "Shopee" THEN ShopeeResponses ELSE Pages

Fetch(fn, out) ==
    CASE fn = "Wilcon" -> fetch_price_wilcon(out)
      [] fn = "ACE"    -> fetch_price_ace(out)
      [] fn = "Shopee" -> fetch_price_shopee(out)

\* `if res:` -- None is falsy, a built dict is truthy.
Truthy(res) == res # NoQuote

\* The quote as appended to results: the adapter's dict with quantity and
\* total_price set.
Stamp(res, q) ==
    [source |-> res.source, unit_price |-> res.unit_price, quantity |-> q,
     total_price |-> res.unit_price * q, confidence |-> res.confidence]

\* Mutant of Full: the cap is tested one entry too late.
FullOffByOne(r) == Len(r) > MaxStores

\* len(results) >= 3: the break of the adapter loop and of the merge loop.
Full(r) == Len(r) >= MaxStores

\* Mutant of NeedAi: the fallback also runs on a full list.
NeedAiAtCap(r) == Len(r) <= MaxStores

\* len(results) < 3: the AI fallback is needed.
NeedAi(r) == Len(r) < MaxStores


\* ------------------------------------------------------------- AI response
\* Lexical tokens of the AI response text.  k: "lb" is [, "rb" is ], "sp" is
\* whitespace, "txt" is prose, "bad" is a malformed JSON fragment such as
\* {bad json, "obj" is an object whose price is the number p, "objstr" an
\* object whose price is a non-numeric string, "objnone" an object without a
\* price key, "num" a JSON number (a non-object array element).
Tok(kind) == [k |-> kind, p |-> 0]
Obj(price) == [k |-> "obj", p |-> price]

\* The text [{bad json
BadJsonText == <<Tok("lb"), Tok("bad")>>

\* The array elements drawn exhaustively, up to MaxAiEntries of them.
EntryKinds == {Obj(7), Obj(9), Obj(0)}

RECURSIVE SeqsUpTo(_, _)
SeqsUpTo(S, n) ==
    IF n = 0 THEN {<<>>}
    ELSE LET shorter == SeqsUpTo(S, n - 1)
         IN  shorter \cup {Append(q, e) : q \in shorter, e \in S}

\* Prose [ e1 ... en ] prose, for every drawn array.
ArrayTexts ==
    {<<Tok("txt"), Tok("lb")>> \o a \o <<Tok("rb"), Tok("txt")>> :
        a \in SeqsUpTo(EntryKinds, MaxAiEntries)}

OtherTexts ==
    { <<>>,                                                  \* empty content
      <<Tok("txt")>>,                                        \* prose only
      BadJsonText,                                           \* [ without ]
      <<Tok("txt"), Tok("rb")>>,                             \* ] without [
      <<Tok("rb"), Tok("txt"), Tok("lb")>>,                  \* ] before [
      <<Tok("lb"), Tok("bad"), Tok("rb")>>,                  \* [{bad json]
      <<Tok("lb"), Obj(7), Tok("rb"), Tok("txt"), Tok("lb"), Obj(9), Tok("rb")>>,
      <<Tok("sp"), Tok("lb"), Tok("lb"), Obj(7), Tok("rb"), Tok("num"), Obj(9), Tok("rb")>>,
      <<Tok("lb"), Tok("objstr"), Tok("objnone"), Obj(0 - 2), Obj(7), Tok("rb")>> }

\* `response` before the provider call has returned.
NoResponse == [kind |-> "none", text |-> <<>>]

\* What client.chat.completions.create can do: raise, or return `text` as
\* the content of the first choice.
AiOutcomes ==
    [kind : {"raise"}, text : {<<>>}]
      \cup [kind : {"text"}, text : ArrayTexts \cup OtherTexts]

\* str.strip() of the response content.
RECURSIVE AiLStrip(_)
AiLStrip(s) == IF Len(s) > 0 /\ s[1].k = "sp" THEN AiLStrip(Tail(s)) ELSE s

RECURSIVE AiRStrip(_)
AiRStrip(s) ==
    IF Len(s) > 0 /\ s[Len(s)].k = "sp"
    THEN AiRStrip(SubSeq(s, 1, Len(s) - 1)) ELSE s

AiStrip(s) == AiRStrip(AiLStrip(s))

\* str.find / str.rfind: 0-based index of the first / last token of kind c,
\* or -1.
Find(s, c) ==
    LET hits == {n \in 1..Len(s) : s[n].k = c}
    IN  IF hits = {} THEN 0 - 1
        ELSE (CHOOSE n \in hits : \A m \in hits : n <= m) - 1

RFind(s, c) ==
    LET hits == {n \in 1..Len(s) : s[n].k = c}
    IN  IF hits = {} THEN 0 - 1
        ELSE (CHOOSE n \in hits : \A m \in hits : n >= m) - 1

\* s[a:b] for 0 <= a, 0 <= b.
Slice(s, a, b) == SubSeq(s, a + 1, IF b > Len(s) THEN Len(s) ELSE b)

\* The tokens between an opening and its closing bracket form JSON values:
\* brackets nest properly and no prose or malformed fragment occurs.
RECURSIVE Balanced(_, _)
Balanced(s, d) ==
    IF Len(s) = 0 THEN d = 0
    ELSE CASE s[1].k = "lb" -> Balanced(Tail(s), d + 1)
           [] s[1].k = "rb" -> d > 0 /\ Balanced(Tail(s), d - 1)
           [] s[1].k \in {"txt", "bad"} -> FALSE
           [] OTHER -> Balanced(Tail(s), d)

\* The elements of the outer array: values at depth 0, a nested array
\* counts as one element of kind "arr".
RECURSIVE Elements(_, _)
Elements(s, d) ==
    IF Len(s) = 0 THEN <<>>
    ELSE CASE s[1].k = "lb" -> Elements(Tail(s), d + 1)
           [] s[1].k = "rb" ->
                (IF d = 1 THEN <<Tok("arr")>> ELSE <<>>) \o Elements(Tail(s), d - 1)
           [] s[1].k = "sp" -> Elements(Tail(s), d)
           [] OTHER ->
                (IF d = 0 THEN <<s[1]>> ELSE <<>>) \o Elements(Tail(s), d)

\* json.loads(json_str): ok = FALSE is json.JSONDecodeError.
JsonLoads(js) ==
    LET t     == AiStrip(js)
        inner == SubSeq(t, 2, Len(t) - 1)
    IN  IF Len(t) >= 2 /\ t[1].k = "lb" /\ t[Len(t)].k = "rb" /\ Balanced(inner, 0)
        THEN [ok |-> TRUE, val |-> Elements(inner, 0)]
        ELSE [ok |-> FALSE, val |-> <<>>]

\* Mutant of ExtractStores: only the opening bracket is looked for.
ExtractStoresNoEndCheck(str) ==
    LET start == Find(str, "lb")
        end   == RFind(str, "rb")
    IN  IF start # 0 - 1
        THEN JsonLoads(Slice(str, start, end + 1))
        ELSE [ok |-> TRUE, val |-> <<>>]

\* Mutant of ExtractStores: a decode error is caught and gives [].
ExtractStoresSwallow(str) ==
    LET start  == Find(str, "lb")
        end    == RFind(str, "rb")
        parsed == JsonLoads(Slice(str, start, end + 1))
    IN  IF start # 0 - 1 /\ end # 0 - 1 /\ end > start /\ parsed.ok
        THEN parsed
        ELSE [ok |-> TRUE, val |-> <<>>]

\* The "safer JSON extraction": the array parsed from the bracketed part of
\* the response, [] when there is no [ ... ] in it.
ExtractStores(str) ==
    LET start == Find(str, "lb")
        end   == RFind(str, "rb")
    IN  IF start # 0 - 1 /\ end # 0 - 1 /\ end > start
        THEN JsonLoads(Slice(str, start, end + 1))
        ELSE [ok |-> TRUE, val |-> <<>>]

\* try: price = float(s.get("price", 0)) / except: price = 0
AiPrice(s) == IF s.k = "obj" THEN s.p ELSE 0

\* Mutant of AiQuote: total_price forgets the quantity.
AiQuoteNoQuantity(price, q) ==
    [source |-> "AI", unit_price |-> price, quantity |-> q,
     total_price |-> price, confidence |-> "medium"]

\* The dict appended for an AI entry.
AiQuote(price, q) ==
    [source |-> "AI", unit_price |-> price, quantity |-> q,
     total_price |-> price * q, confidence |-> "medium"]


\* ----------------------------------------------------------------- request
\* The JSON value under "quantity": absent/null ("none"), an integer n
\* ("int"), or a string s ("str").
QNone == [t |-> "none", n |-> 0, s |-> <<>>]
QInt(n) == [t |-> "int", n |-> n, s |-> <<>>]
QStr(s) == [t |-> "str", n |-> 0, s |-> s]

Quantities ==
    {QNone, QInt(0), QInt(2), QInt(0 - 1), QStr(<<" ", "3">>), QStr(<<"x">>)}

\* The JSON value under "item": absent/null (None) or a string.
Items == {None, <<>>, <<" ", " ">>, <<"a">>, <<" ", "a", " ">>}

Requests == [item : Items, quantity : Quantities]

\* (data.get("item") or "").strip()
ItemOf(d) == Strip(IF d.item = None THEN <<>> ELSE d.item)

\* int(data.get("quantity") or 1); ok = FALSE is the ValueError of int().
QuantityOf(d) ==
    LET q     == d.quantity
        falsy == q.t = "none" \/ (q.t = "int" /\ q.n = 0) \/ (q.t = "str" /\ q.s = <<>>)
    IN  IF falsy THEN [ok |-> TRUE, val |-> 1]
        ELSE IF q.t = "int" THEN [ok |-> TRUE, val |-> q.n]
        ELSE ParseNumber(q.s)

\* results[:3]
Truncate(r) == SubSeq(r, 1, IF Len(r) > MaxStores THEN MaxStores ELSE Len(r))

\* ------------------------------------------------------------ state machine
\* pc: "start" before the handler runs, "sources" in the adapter loop,
\* "fallback" at the `if len(results) < 3`, "merge" in the loop over
\* ai_stores, "return" at `results = results[:3]`, "done" after the
\* response.  response is the provider's return value, status is the HTTP status of the response (0: none yet),
\* stores the list under "stores" in a 200 response.  calls logs every
\* collaborator invocation with the adapter's return value.
Init ==
    /\ pc = "start"
    /\ data = [item |-> None, quantity |-> QNone]
    /\ item = <<>>
    /\ quantity = 0
    /\ results = <<>>
    /\ idx = 1
    /\ response = NoResponse
    /\ ai_str = <<>>
    /\ ai_stores = <<>>
    /\ pos = 1
    /\ status = 0
    /\ stores = <<>>
    /\ calls = <<>>

\* The except handler: jsonify({"error": str(e)}), 500.
Fail500 == pc' = "done" /\ status' = 500

\* Request parsing and validation.
GetStores ==
    /\ pc = "start"
    /\ \E d \in Requests :
         LET q == QuantityOf(d)
         IN  /\ data' = d
             /\ item' = ItemOf(d)
             /\ IF ~q.ok
                THEN Fail500 /\ UNCHANGED quantity
                ELSE /\ quantity' = q.val
                     /\ IF ItemOf(d) = <<>>
                        THEN pc' = "done" /\ status' = 400
                        ELSE pc' = "sources" /\ status' = status
    /\ UNCHANGED <<results, idx, response, ai_str, ai_stores, pos, stores, calls>>

\* One iteration of `for fetch_func in [...]`.
QuerySource ==
    /\ pc = "sources"
    /\ LET fn == FetchFuncs[idx]
       IN  \E out \in Outcomes(fn) :
             LET res == Fetch(fn, out)
                 new == IF Truthy(res)
                        THEN Append(results, Stamp(res, quantity))
                        ELSE results
             IN  /\ results' = new
                 /\ calls' = Append(calls, [fn |-> fn, res |-> res])
                 /\ IF Full(new) \/ idx = Len(FetchFuncs)
                    THEN pc' = "fallback" /\ idx' = idx
                    ELSE pc' = pc /\ idx' = idx + 1
    /\ UNCHANGED <<data, item, quantity, response, ai_str, ai_stores, pos, status,
                   stores>>

\* The AI fallback: the provider call and the extraction of the array.
AiFallback ==
    /\ pc = "fallback"
    /\ NeedAi(results)
    /\ calls' = Append(calls, [fn |-> "AI", res |-> NoQuote])
    /\ \E o \in AiOutcomes :
         IF o.kind = "raise"
         THEN Fail500 /\ UNCHANGED <<response, ai_str, ai_stores>>
         ELSE LET str    == AiStrip(o.text)
                  parsed == ExtractStores(str)
              IN  /\ response' = o
                  /\ ai_str' = str
                  /\ IF ~parsed.ok
                     THEN Fail500 /\ UNCHANGED ai_stores
                     ELSE pc' = "merge" /\ status' = status /\ ai_stores' = parsed.val
    /\ UNCHANGED <<data, item, quantity, results, idx, pos, stores>>

\* `if len(results) < 3` is false: no AI call.
SkipAi ==
    /\ pc = "fallback"
    /\ ~NeedAi(results)
    /\ pc' = "return"
    /\ UNCHANGED <<data, item, quantity, results, idx, response, ai_str, ai_stores,
                   pos, status, stores, calls>>

\* One iteration of `for s in ai_stores`, or the end of the loop.
MergeAi ==
    /\ pc = "merge"
    /\ IF pos > Len(ai_stores) \/ Full(results)
       THEN pc' = "return" /\ UNCHANGED <<results, pos>>
       ELSE LET price == AiPrice(ai_stores[pos])
            IN  /\ pc' = pc
                /\ pos' = pos + 1
                /\ results' = IF price <= 0 THEN results
                              ELSE Append(results, AiQuote(price, quantity))
    /\ UNCHANGED <<data, item, quantity, idx, response, ai_str, ai_stores, status,
                   stores, calls>>

\* results = results[:3]; return jsonify({"stores": results})
Return ==
    /\ pc = "return"
    /\ results' = Truncate(results)
    /\ stores' = Truncate(results)
    /\ status' = 200
    /\ pc' = "done"
    /\ UNCHANGED <<data, item, quantity, idx, response, ai_str, ai_stores, pos,
                   calls>>

Next == GetStores \/ QuerySource \/ AiFallback \/ SkipAi \/ MergeAi \/ Return

Spec == Init /\ [][Next]_vars


\* ------------------------------------------------------------------ claims
Done200 == pc = "done" /\ status = 200

\* The request's item is absent, empty or whitespace-only.
BlankItem == data.item = None \/ \A k \in 1..Len(data.item) : data.item[k] = " "

\* The logged adapter returns that are quotes, stamped with quantity q.
RECURSIVE PresentQuotes(_, _)
PresentQuotes(log, q) ==
    IF Len(log) = 0 THEN <<>>
    ELSE (IF log[1].fn # "AI" /\ log[1].res.source # "none"
          THEN << [source |-> log[1].res.source,
                   unit_price |-> log[1].res.unit_price,
                   quantity |-> q,
                   total_price |-> log[1].res.unit_price * q,
                   confidence |-> log[1].res.confidence] >>
          ELSE <<>>) \o PresentQuotes(Tail(log), q)

AiCallCount == Cardinality({n \in 1..Len(calls) : calls[n].fn = "AI"})

\* The text has a [ before a ] and the part from its first [ to its last ]
\* is not valid JSON.
HasLb(t) == \E n \in 1..Len(t) : t[n].k = "lb"
HasRb(t) == \E n \in 1..Len(t) : t[n].k = "rb"
BracketPair(t) == \E a, b \in 1..Len(t) : a < b /\ t[a].k = "lb" /\ t[b].k = "rb"
UnparsablePair(t) ==
    /\ BracketPair(t)
    /\ LET a == CHOOSE n \in 1..Len(t) : t[n].k = "lb" /\ \A m \in 1..(n - 1) : t[m].k # "lb"
           b == CHOOSE n \in 1..Len(t) : t[n].k = "rb" /\ \A m \in (n + 1)..Len(t) : t[m].k # "rb"
       IN  ~JsonLoads(SubSeq(t, a, b)).ok

\* C1: every quote of a returned list has unit_price > 0, whichever producer
\* it came from.
C1_AllPricesPositive ==
    Done200 => \A k \in 1..Len(stores) : stores[k].unit_price > 0

\* C2: in every state of a call (adapter phase, AI merge, return) the result
\* list holds at most 3 quotes.
C2_AtMostThree == Len(results) <= 3 /\ Len(stores) <= 3

\* C2 witness: the merge loop stands at the cap with AI entries left over,
\* behind adapter quotes.
C2_Witness ==
    /\ pc = "merge"
    /\ Len(results) = 3
    /\ pos <= Len(ai_stores)
    /\ results[1].source # "AI"
    /\ results[3].source = "AI"

\* C3: for a non-empty item the quantity is coerced to a positive integer:
\* the call does not fail on the quantity and every quote has quantity >= 1.
C3_QuantityPositive ==
    (pc # "start" /\ ~BlankItem) =>
        /\ ~(pc = "done" /\ status = 500 /\ calls = <<>>)
        /\ \A k \in 1..Len(results) : results[k].quantity >= 1

\* C4: the AI estimator is invoked at most once, only after the three
\* adapters have returned in order, and, once the adapter phase is over,
\* exactly when fewer than 3 adapter quotes were collected.
C4_AiOnceAfterAdapters ==
    /\ AiCallCount <= 1
    /\ \A n \in 1..Len(calls) :
         calls[n].fn = "AI" =>
            /\ n = 4
            /\ Len(calls) = 4
            /\ <<calls[1].fn, calls[2].fn, calls[3].fn>> = <<"Wilcon", "ACE", "Shopee">>
    /\ (pc \in {"merge", "return", "done"} /\ Len(calls) >= 3) =>
         (AiCallCount = 1 <=> Len(PresentQuotes(SubSeq(calls, 1, 3), quantity)) < 3)

\* C4 witness: a call that returned three adapter quotes without an AI call.
C4_Witness ==
    /\ Done200
    /\ Len(PresentQuotes(calls, quantity)) = 3
    /\ AiCallCount = 0

\* C5 as claimed: an AI text with an unparsable bracket pair, the text
\* [{bad json included, ends the call in a processing error.
C5_BadJsonFails ==
    (pc = "done" /\ response.kind = "text"
        /\ (UnparsablePair(response.text) \/ response.text = BadJsonText))
    => status = 500

\* C5 amended: an AI text with a [ before a ] whose part from the first [ to
\* the last ] is not valid JSON ends the call in a processing error; the
\* text [{bad json has no ] and the call returns the adapter quotes alone.
C5_UnparsablePairFails ==
    (pc = "done" /\ response.kind = "text") =>
        /\ UnparsablePair(response.text) => status = 500
        /\ response.text = BadJsonText =>
              status = 200 /\ stores = PresentQuotes(calls, quantity)

\* C5 witness: a processing error after a bracketed, unparsable AI text.
C5_Witness ==
    /\ pc = "done"
    /\ status = 500
    /\ response.kind = "text"
    /\ UnparsablePair(response.text)

\* C6: an AI text lacking [ or lacking ] contributes no quote and raises no
\* error: the call returns exactly the adapters' quotes.
C6_NoBracketsNoQuotes ==
    (pc = "done" /\ response.kind = "text"
        /\ (~HasLb(response.text) \/ ~HasRb(response.text)))
    => status = 200 /\ stores = PresentQuotes(calls, quantity)

\* C6 witness: a returned call whose AI text had a ] but no [, with an
\* adapter quote in the result.
C6_Witness ==
    /\ Done200
    /\ response.kind = "text"
    /\ HasRb(response.text)
    /\ ~HasLb(response.text)
    /\ Len(stores) >= 1

\* C7: a call fails visibly only if the item is empty or the AI text carries
\* an unparsable bracketed payload; otherwise it returns 0 to 3 quotes.
C7_OnlyTwoFailures ==
    pc = "done" =>
        \/ BlankItem
        \/ (response.kind = "text" /\ UnparsablePair(response.text))
        \/ (status = 200 /\ Len(stores) <= 3)

\* C8: a request whose item is absent, empty or whitespace-only is rejected
\* with the input error, whatever its quantity, and no adapter and no AI
\* call is made.
C8_BlankItemRejected ==
    (pc # "start" /\ BlankItem) => (pc = "done" /\ status = 400 /\ calls = <<>>)

\* C9: every quote carries the request's coerced quantity and
\* total_price = unit_price * quantity, and a quote once appended is never
\* changed.
C9_QuotesStamped ==
    /\ [](\A k \in 1..Len(results) :
             /\ results[k].quantity = quantity
             /\ QuantityOf(data).ok /\ results[k].quantity = QuantityOf(data).val
             /\ results[k].total_price = results[k].unit_price * results[k].quantity)
    /\ [](\A k \in 1..Len(stores) :
             /\ stores[k].quantity = quantity
             /\ stores[k].total_price = stores[k].unit_price * stores[k].quantity)
    /\ [][\A k \in 1..Len(results) :
             k <= Len(results') => results'[k] = results[k]]_vars

\* C9 witness: a returned list with quantity 2 holding an adapter quote and
\* an AI quote.
C9_Witness ==
    /\ Done200
    /\ quantity = 2
    /\ \E k \in 1..Len(stores) : stores[k].source = "AI"
    /\ \E k \in 1..Len(stores) : stores[k].source = "Shopee"

\* The first n entries of s.
FirstN(s, n) == SubSeq(s, 1, IF Len(s) < n THEN Len(s) ELSE n)

\* The quotes of the parsed AI entries whose price is a number > 0.
RECURSIVE PositiveAi(_, _)
PositiveAi(arr, q) ==
    IF Len(arr) = 0 THEN <<>>
    ELSE (IF arr[1].k = "obj" /\ arr[1].p > 0
          THEN << [source |-> "AI", unit_price |-> arr[1].p, quantity |-> q,
                   total_price |-> arr[1].p * q, confidence |-> "medium"] >>
          ELSE <<>>) \o PositiveAi(Tail(arr), q)

\* C10: the returned list is the present adapter quotes in the order Wilcon,
\* ACE, Shopee, followed by the first 3 - k AI entries with price > 0.
C10_AdaptersThenAi ==
    Done200 =>
        LET adapters == PresentQuotes(SubSeq(calls, 1, 3), quantity)
        IN  /\ <<calls[1].fn, calls[2].fn, calls[3].fn>> = <<"Wilcon", "ACE", "Shopee">>
            /\ stores = adapters \o FirstN(PositiveAi(ai_stores, quantity), 3 - Len(adapters))

\* C10 witness: Wilcon absent, ACE present, and an AI array of four entries
\* that starts with a zero price, of which two are taken.
C10_Witness ==
    /\ Done200
    /\ Len(stores) = 3
    /\ stores[1].source = "ACE"
    /\ stores[2].source = "AI"
    /\ Len(ai_stores) = 4
    /\ ai_stores[1].p = 0

=============================================================================
